---- MODULE Spec2Model ----
(***************************************************************************)
(* Career Catalyst (src/app.py): the entitlement ledger kept in the        *)
(* realtime database under users/<uid>, the operations that read and write *)
(* it, and the Streamlit page handlers that call them.                     *)
(*                                                                         *)
(* Time is counted in days.  A missing value (Python None, a key absent    *)
(* from the database) is NoExpiry for an expiry and NoUser for the session *)
(* user.  The database is the dict users_ref.get() returns: a function     *)
(* from the stored user ids to their records.                              *)
(***************************************************************************)
EXTENDS Integers, Sequences, FiniteSets, TLC

\* ------------------------------------------------------------------ bounds
\* Module runs the whole database may hold in the ledger specification.
MaxRuns == 1
\* Largest usage count of a stored record the gate is evaluated on.
MaxSeedRuns == 101
\* Gate checks made in scenario A.
MaxChecks == 7
\* Module runs a session of the module pages may add to the ledger.
MaxUiRuns == 2
\* Module runs recorded before the payment of scenario B.
MaxScenarioRuns == 3
\* Calls made after the payment of scenario B.
MaxCalls == 3
\* Runs of one module that concurrent sessions record.
MaxRaceRuns == 2

\* ------------------------------------------------------- program constants
SIX_MONTHS == 180
FreeLimit == 5
ProLimit == 100
LeftFreeLimit == 5
LeftProLimit == 100
NoExpiry == -1
\* Words a CV and a job description may have.
CV_WORD_LIMIT == 5000
JD_WORD_LIMIT == 2000
\* Words an answer needs to be evaluated.
MinAnswerWords == 5
\* API calls check_rate_limit counts per session and day.
RATE_LIMIT == 150
\* Days a login cookie is accepted for (24*3600 seconds).
COOKIE_DAYS == 1

Modules == {"Module 1", "Module 2", "Module 3", "Module 4", "Module 5", "Module 6"}
Packages == {"free", "pro", "ultimate"}

\* The identity provider's user ids, in the key order the database lists them.
UserOrder == <<"u1", "u2">>
Users == {UserOrder[i] : i \in 1..Len(UserOrder)}
NoUser == "none"

\* E-mail addresses as typed; str.lower() on them.
Emails == {"a@x.io", "b@x.io"}
lower(e) == IF e = "A@x.io" THEN "a@x.io" ELSE e

\* Clock readings: the start, the day a subscription bought at the start
\* expires, and the day after.
Times == {0, SIX_MONTHS, SIX_MONTHS + 1}

\* Checkout sessions the payment provider holds (stripe.checkout.Session.retrieve):
\* found FALSE makes the retrieval raise; has_plan FALSE is metadata without
\* "purchase_plan".
Sessions == {"cs_pro", "cs_ult", "cs_unpaid", "cs_noplan", "cs_nouser", "cs_gone"}
StripeSession(sid) ==
    CASE sid = "cs_pro" ->
           [found |-> TRUE, payment_status |-> "paid", has_plan |-> TRUE,
            purchase_plan |-> "pro", customer_email |-> "A@x.io"]
      [] sid = "cs_ult" ->
           [found |-> TRUE, payment_status |-> "paid", has_plan |-> TRUE,
            purchase_plan |-> "ultimate", customer_email |-> "b@x.io"]
      [] sid = "cs_unpaid" ->
           [found |-> TRUE, payment_status |-> "unpaid", has_plan |-> TRUE,
            purchase_plan |-> "pro", customer_email |-> "a@x.io"]
      [] sid = "cs_noplan" ->
           [found |-> TRUE, payment_status |-> "paid", has_plan |-> FALSE,
            purchase_plan |-> "", customer_email |-> "a@x.io"]
      [] sid = "cs_nouser" ->
           [found |-> TRUE, payment_status |-> "paid", has_plan |-> TRUE,
            purchase_plan |-> "pro", customer_email |-> "c@x.io"]
      [] OTHER ->
           [found |-> FALSE, payment_status |-> "", has_plan |-> FALSE,
            purchase_plan |-> "", customer_email |-> ""]

VARIABLES
    db,        \* users/<uid> records of the realtime database
    now,       \* datetime.now(), in days
    user,      \* st.session_state.user (its localId), or NoUser
    ret,       \* what the most recent call returned (NoRet when it returns nothing)
    applied,   \* history: the checkout sessions an upgrade was applied for
    gateLog,   \* history: what the calls of a scenario returned, in order
    session_state,   \* the step and the cached texts and results
    llm,       \* history: the LLM call of the most recent script run
    api_calls, \* st.session_state.api_calls_date and api_calls_count
    outbound,  \* history: the provider calls the most recent completion issued
    cookies,   \* the browser's login cookie: user and login_time
    inflight   \* per concurrent session: the ledger call in progress

vars == <<db, now, user, ret, applied, gateLog, session_state, llm,
          api_calls, outbound, cookies, inflight>>

\* What the module pages' ledger calls and the page handlers never touch.
side == <<api_calls, outbound, cookies, inflight>>

\* What the ledger functions never touch.
rest == <<applied, gateLog, session_state, llm, side>>

\* ---------------------------------------------------------------- session
\* Session state initialization: step 0, no texts, no results.  A text is its
\* number of words, 0 when there is none.
FreshSession ==
    [step |-> 0, cv_text |-> 0, jd_text |-> 0, cv_analysis |-> FALSE,
     jd_analysis |-> FALSE, fit_analysis |-> FALSE, cv_improvement |-> FALSE,
     interview_output |-> FALSE]

\* No api call counted yet; no login cookie; the concurrent sessions, and one
\* with no ledger call in progress.
NoDate == -1
NoApiCalls == [api_calls_date |-> NoDate, api_calls_count |-> 0]
\* The login cookie: user is "" or the stored user, login_time is << >> for the
\* empty string and <<t>> for str(t).
NoCookies == [user |-> "", login_time |-> << >>]
Procs == {"s1", "s2"}
Idle == [pc |-> "idle", uid |-> "", m |-> "", val |-> 0, package |-> ""]

\* No LLM call was made.
NoLlm == [called |-> FALSE, module |-> "", outcome |-> "", allowed |-> FALSE]

\* ----------------------------------------------------------------- ledger
reset_usage == [m \in Modules |-> 0]

subscription_init == [package |-> "free", expiry |-> NoExpiry]

NewRecord_Trial(email, t) ==
    [email |-> email, created_at |-> t, usage |-> reset_usage,
     subscription |-> [package |-> "pro", expiry |-> t + SIX_MONTHS]]

NewRecord(email, t) ==
    [email |-> email, created_at |-> t, usage |-> reset_usage,
     subscription |-> subscription_init]

store_user_in_db(d, uid, email, t) ==
    [u \in DOMAIN d \cup {uid} |-> IF u = uid THEN NewRecord(email, t) ELSE d[u]]

\* A return value: the function that returned, its argument, and the value's parts
\* (for can_run_module, s is the package the call read from the record).
Ret(op, arg, ok, n, s, email) ==
    [op |-> op, arg |-> arg, ok |-> ok, n |-> n, s |-> s, email |-> email]
NoRet == Ret("", "", FALSE, 0, "", "")

\* Runs recorded in the whole database.
RECURSIVE SumUsage(_, _)
SumUsage(usage, ms) ==
    IF ms = {} THEN 0
    ELSE LET m == CHOOSE x \in ms : TRUE IN usage[m] + SumUsage(usage, ms \ {m})
RECURSIVE TotalRuns(_, _)
TotalRuns(d, us) ==
    IF us = {} THEN 0
    ELSE LET u == CHOOSE x \in us : TRUE
         IN SumUsage(d[u].usage, Modules) + TotalRuns(d, us \ {u})

\* get_user_data(): the session user's record, {} when there is none.
HasData(d, usr) == usr # NoUser /\ usr \in DOMAIN d
DataSubscription(d, usr) == IF HasData(d, usr) THEN d[usr].subscription ELSE subscription_init
DataUsage(d, usr, m) == IF HasData(d, usr) THEN d[usr].usage[m] ELSE 0

RecordedRun_Overwrite(d, uid, m) ==
    [d EXCEPT ![uid].usage = [k \in {m} |-> d[uid].usage[m] + 1]]

\* record_module_run's write: usage/<module> read, incremented, written back.
RecordedRun(d, uid, m) == [d EXCEPT ![uid].usage[m] = @ + 1]

Expired_OnTheDay(sub, t) == sub.expiry # NoExpiry /\ t >= sub.expiry

\* can_run_module: whether the stored expiry has passed at time t.
Expired(sub, t) == sub.expiry # NoExpiry /\ t > sub.expiry

GatePackage_Stale(sub, t) == sub.package

\* can_run_module: the package the decision is taken for.
GatePackage(sub, t) == IF Expired(sub, t) THEN "free" ELSE sub.package

GateDecision_OffByOne(package, current_runs) ==
    CASE package = "free" -> current_runs <= FreeLimit
      [] package = "pro" -> current_runs <= ProLimit
      [] package = "ultimate" -> TRUE
      [] OTHER -> FALSE

\* can_run_module: the decision, by package and runs used.
GateDecision(package, current_runs) ==
    CASE package = "free" -> current_runs < FreeLimit
      [] package = "pro" -> current_runs < ProLimit
      [] package = "ultimate" -> TRUE
      [] OTHER -> FALSE

Downgraded_ResetUsage(d, uid) ==
    [d EXCEPT ![uid].subscription = [package |-> "free", expiry |-> NoExpiry],
              ![uid].usage = reset_usage]

\* can_run_module: the write an expired subscription triggers.
Downgraded(d, uid) == [d EXCEPT ![uid].subscription = [package |-> "free", expiry |-> NoExpiry]]

GateDb(d, usr, t) ==
    IF HasData(d, usr) /\ Expired(d[usr].subscription, t) THEN Downgraded(d, usr) ELSE d

GateResult(d, usr, t, m) ==
    GateDecision(GatePackage(DataSubscription(d, usr), t), DataUsage(d, usr, m))

\* get_left_runs: the remaining runs; Unlimited is the string "Unlimited".
Max(a, b) == IF a >= b THEN a ELSE b
LeftRuns(d, usr, m) ==
    LET package == DataSubscription(d, usr).package
        used == DataUsage(d, usr, m)
    IN CASE package = "free" -> Ret("get_left_runs", m, TRUE, Max(LeftFreeLimit - used, 0), "", "")
         [] package = "pro" -> Ret("get_left_runs", m, TRUE, Max(LeftProLimit - used, 0), "", "")
         [] package = "ultimate" -> Ret("get_left_runs", m, TRUE, 0, "Unlimited", "")
         [] OTHER -> Ret("get_left_runs", m, TRUE, 0, "", "")

Upgraded_KeepUsage(rec, plan, t) ==
    [rec EXCEPT !.subscription = [package |-> plan, expiry |-> t + SIX_MONTHS]]

Upgraded_Extend(rec, plan, t) ==
    [rec EXCEPT !.subscription =
                    [package |-> plan,
                     expiry |-> IF rec.subscription.expiry # NoExpiry
                                THEN rec.subscription.expiry + SIX_MONTHS
                                ELSE t + SIX_MONTHS],
                !.usage = reset_usage]

Upgraded_Backdated(rec, plan, t) ==
    [rec EXCEPT !.subscription = [package |-> plan, expiry |-> t - 1],
                !.usage = reset_usage]

\* The one update() both upgrade paths issue on users/<uid>.
Upgraded(rec, plan, t) ==
    [rec EXCEPT !.subscription = [package |-> plan, expiry |-> t + SIX_MONTHS],
                !.usage = reset_usage]

\* update_tier_by_checkout_session: the plan tag, "free" when the metadata has none.
PurchasePlan(session) == IF session.has_plan THEN session.purchase_plan ELSE "free"

Matching_Exact(d, customer_email) ==
    {i \in 1..Len(UserOrder) :
        UserOrder[i] \in DOMAIN d /\ d[UserOrder[i]].email = customer_email}

\* update_tier_by_checkout_session: the records the loop over users.items() matches,
\* and the first of them in key order.
Matching(d, customer_email) ==
    {i \in 1..Len(UserOrder) :
        UserOrder[i] \in DOMAIN d /\ lower(d[UserOrder[i]].email) = lower(customer_email)}
Min(S) == CHOOSE x \in S : \A y \in S : x <= y
FirstMatch(d, customer_email) == UserOrder[Min(Matching(d, customer_email))]

CheckoutDb_IgnoreStatus(d, sid, t) ==
    LET session == StripeSession(sid) IN
    IF session.found /\ Matching(d, session.customer_email) # {}
    THEN [d EXCEPT ![FirstMatch(d, session.customer_email)] =
              Upgraded(@, PurchasePlan(session), t)]
    ELSE d

CheckoutDb_AllMatches(d, sid, t) ==
    LET session == StripeSession(sid) IN
    IF session.found /\ session.payment_status = "paid"
    THEN [u \in DOMAIN d |->
             IF lower(d[u].email) = lower(session.customer_email)
             THEN Upgraded(d[u], PurchasePlan(session), t) ELSE d[u]]
    ELSE d

\* update_tier_by_checkout_session: the database it leaves.
CheckoutDb(d, sid, t) ==
    LET session == StripeSession(sid) IN
    IF session.found /\ session.payment_status = "paid"
       /\ Matching(d, session.customer_email) # {}
    THEN [d EXCEPT ![FirstMatch(d, session.customer_email)] =
              Upgraded(@, PurchasePlan(session), t)]
    ELSE d

CheckoutRet(d, sid) ==
    LET session == StripeSession(sid) IN
    IF ~session.found THEN Ret("update_tier_by_checkout_session", sid, FALSE, 0, "None", "None")
    ELSE IF session.payment_status # "paid" \/ Matching(d, session.customer_email) = {}
    THEN Ret("update_tier_by_checkout_session", sid, FALSE, 0, "None", session.customer_email)
    ELSE Ret("update_tier_by_checkout_session", sid, TRUE, 0, PurchasePlan(session),
             session.customer_email)

\* ----------------------------------------------------------------- actions
signup_user(uid, email) ==
    /\ uid \notin DOMAIN db
    /\ db' = store_user_in_db(db, uid, email, now)
    /\ ret' = NoRet
    /\ UNCHANGED <<now, user>>

login_user(uid) ==
    /\ user = NoUser
    /\ uid \in DOMAIN db
    /\ user' = uid
    /\ ret' = NoRet
    /\ UNCHANGED <<db, now>>

logout_user ==
    /\ user # NoUser
    /\ user' = NoUser
    /\ ret' = NoRet
    /\ UNCHANGED <<db, now>>

Tick ==
    /\ \E t \in Times : t > now /\ now' = t
    /\ ret' = NoRet
    /\ UNCHANGED <<db, user>>

record_module_run(m) ==
    /\ HasData(db, user)
    /\ db' = RecordedRun(db, user, m)
    /\ ret' = NoRet
    /\ UNCHANGED <<now, user>>

can_run_module(m) ==
    /\ user # NoUser
    /\ db' = GateDb(db, user, now)
    /\ ret' = Ret("can_run_module", m, GateResult(db, user, now, m), 0,
                   DataSubscription(db, user).package, "")
    /\ UNCHANGED <<now, user>>

get_left_runs(m) ==
    /\ user # NoUser
    /\ ret' = LeftRuns(db, user, m)
    /\ UNCHANGED <<db, now, user>>

update_tier_after_payment(plan) ==
    /\ HasData(db, user)
    /\ db' = [db EXCEPT ![user] = Upgraded(@, plan, now)]
    /\ ret' = Ret("update_tier_after_payment", plan, FALSE, 0, "", "")
    /\ UNCHANGED <<now, user>>

update_tier_by_checkout_session(sid) ==
    /\ db' = CheckoutDb(db, sid, now)
    /\ ret' = CheckoutRet(db, sid)
    /\ UNCHANGED <<now, user>>

\* update_tier_by_checkout_session when the database raises (users_ref.get() or
\* the one update()): nothing is written and the handler returns
\* (False, None, None).
update_tier_by_checkout_session_raises(sid) ==
    /\ StripeSession(sid).found
    /\ StripeSession(sid).payment_status = "paid"
    /\ db' = db
    /\ ret' = Ret("update_tier_by_checkout_session", sid, FALSE, 0, "None", "None")
    /\ UNCHANGED <<now, user>>

\* A page load with ?status=success&session_id=<sid>: the query-parameter handler
\* calls update_tier_by_checkout_session; the history notes a session once applied.
payment_status_success(sid) ==
    /\ update_tier_by_checkout_session(sid)
    /\ applied' = IF ret'.ok THEN applied \cup {sid} ELSE applied
    /\ UNCHANGED <<gateLog, session_state, llm, side>>

\* The records two earlier sign-ups left in the database.
SignedUpDb == store_user_in_db(store_user_in_db(<< >>, "u1", "a@x.io", 0), "u2", "b@x.io", 0)

Init ==
    /\ db = SignedUpDb
    /\ now = 0
    /\ user = NoUser
    /\ ret = NoRet
    /\ applied = {}
    /\ gateLog = << >>
    /\ session_state = FreshSession
    /\ llm = NoLlm
    /\ api_calls = NoApiCalls
    /\ outbound = << >>
    /\ cookies = NoCookies
    /\ inflight = [s \in Procs |-> Idle]

Next ==
    \/ \E uid \in Users : login_user(uid) /\ UNCHANGED rest
    \/ logout_user /\ UNCHANGED rest
    \/ Tick /\ UNCHANGED rest
    \/ \E m \in Modules :
          TotalRuns(db, DOMAIN db) < MaxRuns /\ record_module_run(m) /\ UNCHANGED rest
    \/ \E m \in Modules : can_run_module(m) /\ UNCHANGED rest
    \/ \E m \in Modules : get_left_runs(m) /\ UNCHANGED rest
    \/ \E plan \in {"pro", "ultimate"} : update_tier_after_payment(plan) /\ UNCHANGED rest
    \/ \E sid \in Sessions : update_tier_by_checkout_session(sid) /\ UNCHANGED rest

\* The ledger operations over the records two sign-ups left.
Spec == Init /\ [][Next]_vars

\* ------------------------------------------------- the gate on stored records
\* Subscriptions the upgrade paths can have stored at time 0, and the free one.
SeedSubscriptions ==
    {subscription_init}
    \cup {[package |-> p, expiry |-> SIX_MONTHS] : p \in Packages}

\* Records a logged-in user can have: any runs used of one module.
SeedRecords ==
    {[email |-> "a@x.io", created_at |-> 0, subscription |-> sub,
      usage |-> [m \in Modules |-> IF m = hot THEN n ELSE 0]] :
        sub \in SeedSubscriptions, hot \in {"Module 1", "Module 6"}, n \in 0..MaxSeedRuns}

GateInit ==
    /\ db \in {<< >>} \cup {store_user_in_db(<< >>, "u1", "a@x.io", 0)}
             \cup {[u \in {"u1"} |-> rec] : rec \in SeedRecords}
    /\ now \in Times
    /\ user = "u1"
    /\ ret = NoRet
    /\ applied = {}
    /\ gateLog = << >>
    /\ session_state = FreshSession
    /\ llm = NoLlm
    /\ api_calls = NoApiCalls
    /\ outbound = << >>
    /\ cookies = NoCookies
    /\ inflight = [s \in Procs |-> Idle]

GateNext ==
    \/ \E m \in Modules : can_run_module(m) /\ UNCHANGED rest
    \/ \E m \in Modules : get_left_runs(m) /\ UNCHANGED rest
    \/ Tick /\ UNCHANGED rest

SpecGate == GateInit /\ [][GateNext]_vars

\* ------------------------------------------- the payment success page, replayed
PaymentNext ==
    \/ \E sid \in Sessions : payment_status_success(sid)
    \/ \E uid \in Users : login_user(uid) /\ UNCHANGED rest
    \/ logout_user /\ UNCHANGED rest
    \/ Tick /\ UNCHANGED rest
    \/ \E m \in Modules :
          TotalRuns(db, DOMAIN db) < MaxRuns /\ record_module_run(m) /\ UNCHANGED rest

SpecPayment == Init /\ [][PaymentNext]_vars

\* ------------------------------------------- upgrades over a store that may fail
StoreNext ==
    \/ \E sid \in Sessions : update_tier_by_checkout_session(sid) /\ UNCHANGED rest
    \/ \E sid \in Sessions : update_tier_by_checkout_session_raises(sid) /\ UNCHANGED rest
    \/ \E plan \in {"pro", "ultimate"} : update_tier_after_payment(plan) /\ UNCHANGED rest
    \/ \E uid \in Users : login_user(uid) /\ UNCHANGED rest
    \/ Tick /\ UNCHANGED rest
    \/ \E m \in Modules :
          TotalRuns(db, DOMAIN db) < MaxRuns /\ record_module_run(m) /\ UNCHANGED rest

SpecStore == Init /\ [][StoreNext]_vars

\* ---------------------------------------------------------- module pages
\* One action is one run of the script for one widget event of a logged-in
\* user, on the page "landing"; a trailing st.rerun() is the render of the page
\* the run ends on.  An LLM call ends "ok" (a usable result), "unusable" (a
\* response that is empty, too short or not the expected JSON) or "failed" (no
\* response: an error, the rate limit, a timeout whose fallback fails too).
LlmOutcomes == {"ok", "unusable", "failed"}

\* The LLM call a run makes for module m; allowed is what can_run_module
\* returns for the module when the call is made.  No handler calls it.
Llm(m, outcome) ==
    [called |-> TRUE, module |-> m, outcome |-> outcome,
     allowed |-> GateResult(db, user, now, m)]

HasTexts(s) == s.cv_text > 0 /\ s.jd_text > 0

\* The module pages with no button pressed: the Module 5 page records a run
\* whenever it shows interview questions.
Render(d, s, usr) ==
    IF s.step = 5 /\ HasTexts(s) /\ s.interview_output
    THEN RecordedRun(d, usr, "Module 5")
    ELSE d

\* What the page handlers leave alone.
page_frame == <<now, user, ret, applied, gateLog, side>>

\* A widget event with no handler of its own (a radio choice, a text input).
rerun ==
    /\ session_state.step > 0
    /\ db' = Render(db, session_state, user)
    /\ llm' = NoLlm
    /\ UNCHANGED <<session_state, page_frame>>

\* "Start" in the sidebar and "Get Started" on the landing page.
get_started ==
    /\ session_state.step = 0
    /\ session_state' = [session_state EXCEPT !.step = 1]
    /\ llm' = NoLlm
    /\ UNCHANGED <<db, page_frame>>

\* A module button of the sidebar.
module_button(mod_num) ==
    /\ session_state.step > 0
    /\ session_state' = [session_state EXCEPT !.step = mod_num]
    /\ db' = Render(db, session_state', user)
    /\ llm' = NoLlm
    /\ UNCHANGED page_frame

cv_upload_Unchecked(words) ==
    /\ session_state.step \in {1, 3, 4, 5, 6}
    /\ session_state' = [session_state EXCEPT !.cv_text = words]
    /\ db' = Render(db, session_state', user)
    /\ llm' = NoLlm
    /\ UNCHANGED page_frame

\* A CV upload of the given number of words, on the Module 1 page or in
\* update_or_keep_cv_jd.
cv_upload(words) ==
    /\ session_state.step \in {1, 3, 4, 5, 6}
    /\ session_state' = IF words > CV_WORD_LIMIT THEN session_state
                        ELSE [session_state EXCEPT !.cv_text = words]
    /\ db' = Render(db, session_state', user)
    /\ llm' = NoLlm
    /\ UNCHANGED page_frame

\* A pasted job description of the given number of words, on the Module 2 page
\* or in update_or_keep_cv_jd.
use_manual_jd(words) ==
    /\ session_state.step \in 2..6
    /\ session_state' = IF words > JD_WORD_LIMIT THEN session_state
                        ELSE [session_state EXCEPT !.jd_text = words]
    /\ db' = Render(db, session_state', user)
    /\ llm' = NoLlm
    /\ UNCHANGED page_frame

\* "Scrape Job Posting" / "Scrape New JD", on the Module 2 page or in
\* update_or_keep_cv_jd: the page gave a text of the given number of words; 0
\* is a scraping error or an empty text.
scrape_jd(words) ==
    /\ session_state.step \in 2..6
    /\ session_state' = IF words = 0 \/ words > JD_WORD_LIMIT THEN session_state
                        ELSE [session_state EXCEPT !.jd_text = words]
    /\ db' = Render(db, session_state', user)
    /\ llm' = NoLlm
    /\ UNCHANGED page_frame

\* "Run CV Analysis".
run_cv_analysis(outcome) ==
    /\ session_state.step = 1
    /\ session_state.cv_text > 0
    /\ llm' = Llm("Module 1", outcome)
    /\ session_state' = IF outcome = "ok" THEN [session_state EXCEPT !.cv_analysis = TRUE]
                        ELSE session_state
    /\ db' = IF outcome = "ok" THEN RecordedRun(db, user, "Module 1") ELSE db
    /\ UNCHANGED page_frame

\* "Run Job Analysis".
run_jd_analysis(outcome) ==
    /\ session_state.step = 2
    /\ session_state.jd_text > 0
    /\ llm' = Llm("Module 2", outcome)
    /\ session_state' = IF outcome = "ok" THEN [session_state EXCEPT !.jd_analysis = TRUE]
                        ELSE session_state
    /\ db' = IF outcome = "ok" THEN RecordedRun(db, user, "Module 2") ELSE db
    /\ UNCHANGED page_frame

\* "Run Fit Analysis".
run_fit_analysis(outcome) ==
    /\ session_state.step = 3
    /\ HasTexts(session_state)
    /\ llm' = Llm("Module 3", outcome)
    /\ session_state' = IF outcome = "ok" THEN [session_state EXCEPT !.fit_analysis = TRUE]
                        ELSE session_state
    /\ db' = IF outcome = "ok" THEN RecordedRun(db, user, "Module 3") ELSE db
    /\ UNCHANGED page_frame

\* "Generate CV Improvement Suggestions".
run_cvimp(outcome) ==
    /\ session_state.step = 4
    /\ HasTexts(session_state)
    /\ llm' = Llm("Module 4", outcome)
    /\ session_state' = IF outcome = "ok" THEN [session_state EXCEPT !.cv_improvement = TRUE]
                        ELSE session_state
    /\ db' = IF outcome = "ok" THEN RecordedRun(db, user, "Module 4") ELSE db
    /\ UNCHANGED page_frame

\* "Generate Interview Questions": generate_interview_questions keeps its
\* failures to itself, and the page goes on to show what questions there are.
gen_int_questions(outcome) ==
    /\ session_state.step = 5
    /\ HasTexts(session_state)
    /\ llm' = Llm("Module 5", outcome)
    /\ session_state' = IF outcome = "ok"
                        THEN [session_state EXCEPT !.interview_output = TRUE]
                        ELSE session_state
    /\ db' = Render(db, session_state', user)
    /\ UNCHANGED page_frame

\* "Regenerate Interview Questions" on the Module 6 page.
regen_questions6(outcome) ==
    /\ session_state.step = 6
    /\ IF HasTexts(session_state)
       THEN /\ llm' = Llm("Module 5", outcome)
            /\ session_state' = IF outcome = "ok"
                                THEN [session_state EXCEPT !.interview_output = TRUE]
                                ELSE session_state
            /\ db' = RecordedRun(db, user, "Module 5")
       ELSE /\ llm' = NoLlm
            /\ UNCHANGED <<session_state, db>>
    /\ UNCHANGED page_frame

\* "Submit Typed Answer" with an answer of the given number of words: any
\* response is shown and recorded.
submit_answer_typed(words, outcome) ==
    /\ session_state.step = 6
    /\ IF words >= MinAnswerWords
       THEN /\ llm' = Llm("Module 6", outcome)
            /\ db' = IF outcome = "failed" THEN db ELSE RecordedRun(db, user, "Module 6")
       ELSE /\ llm' = NoLlm
            /\ db' = db
    /\ UNCHANGED <<session_state, page_frame>>

\* "Submit Audio Answer" with a transcript of the given number of words.
submit_audio(words, outcome) ==
    /\ session_state.step = 6
    /\ IF words >= MinAnswerWords
       THEN /\ llm' = Llm("Module 6", outcome)
            /\ db' = IF outcome = "failed" THEN db ELSE RecordedRun(db, user, "Module 6")
       ELSE /\ llm' = NoLlm
            /\ db' = db
    /\ UNCHANGED <<session_state, page_frame>>

\* The result a module page shows before it offers the next module.
Result(s, k) ==
    CASE k = 1 -> s.cv_analysis
      [] k = 2 -> s.jd_analysis
      [] k = 3 -> s.fit_analysis
      [] k = 4 -> s.cv_improvement
      [] k = 5 -> s.interview_output

\* "Next: ..." on the page of module k: the page has run down to the button
\* when the step changes.
go_module(k) ==
    /\ session_state.step = k
    /\ Result(session_state, k)
    /\ session_state' = [session_state EXCEPT !.step = k + 1]
    /\ db' = Render(Render(db, session_state, user), session_state', user)
    /\ llm' = NoLlm
    /\ UNCHANGED page_frame

\* "Back to Interview Prep" on the Module 6 page.
back_practice ==
    /\ session_state.step = 6
    /\ session_state' = [session_state EXCEPT !.step = 5]
    /\ db' = Render(db, session_state', user)
    /\ llm' = NoLlm
    /\ UNCHANGED page_frame

\* "Start Over" on the Module 6 page.
restart_practice ==
    /\ session_state.step = 6
    /\ session_state' = FreshSession
    /\ llm' = NoLlm
    /\ UNCHANGED <<db, page_frame>>

\* A free user one run short of the limit on every module opens the
\* application.
UiInit ==
    /\ db = [uid \in {"u1"} |->
                [NewRecord("a@x.io", 0) EXCEPT !.usage = [m \in Modules |-> FreeLimit - 1]]]
    /\ now = 0
    /\ user = "u1"
    /\ ret = NoRet
    /\ applied = {}
    /\ gateLog = << >>
    /\ session_state = FreshSession
    /\ llm = NoLlm
    /\ api_calls = NoApiCalls
    /\ outbound = << >>
    /\ cookies = NoCookies
    /\ inflight = [s \in Procs |-> Idle]

UiRunCap == Cardinality(Modules) * (FreeLimit - 1) + MaxUiRuns
WithinRuns == TotalRuns(db', DOMAIN db') <= UiRunCap

UiNext ==
    \/ rerun /\ WithinRuns
    \/ get_started
    \/ \E mod_num \in 1..6 : module_button(mod_num) /\ WithinRuns
    \/ \E words \in {CV_WORD_LIMIT, CV_WORD_LIMIT + 1} : cv_upload(words) /\ WithinRuns
    \/ \E words \in {JD_WORD_LIMIT, JD_WORD_LIMIT + 1} : use_manual_jd(words) /\ WithinRuns
    \/ \E words \in {0, JD_WORD_LIMIT - 1, JD_WORD_LIMIT + 1} : scrape_jd(words) /\ WithinRuns
    \/ \E outcome \in LlmOutcomes : run_cv_analysis(outcome) /\ WithinRuns
    \/ \E outcome \in LlmOutcomes : run_jd_analysis(outcome) /\ WithinRuns
    \/ \E outcome \in LlmOutcomes : run_fit_analysis(outcome) /\ WithinRuns
    \/ \E outcome \in LlmOutcomes : run_cvimp(outcome) /\ WithinRuns
    \/ \E outcome \in LlmOutcomes : gen_int_questions(outcome) /\ WithinRuns
    \/ \E outcome \in LlmOutcomes : regen_questions6(outcome) /\ WithinRuns
    \/ \E words \in {MinAnswerWords - 1, MinAnswerWords}, outcome \in LlmOutcomes :
          submit_answer_typed(words, outcome) /\ WithinRuns
    \/ \E words \in {MinAnswerWords - 1, MinAnswerWords}, outcome \in LlmOutcomes :
          submit_audio(words, outcome) /\ WithinRuns
    \/ \E k \in 1..5 : go_module(k) /\ WithinRuns
    \/ back_practice /\ WithinRuns
    \/ restart_practice

SpecUI == UiInit /\ [][UiNext]_vars

\* ------------------------------------- scenario A: a new user checks and runs
\* Gate checks made in the scenario.
ScenarioInit ==
    /\ db = << >>
    /\ now = 0
    /\ user = NoUser
    /\ ret = NoRet
    /\ applied = {}
    /\ gateLog = << >>
    /\ session_state = FreshSession
    /\ llm = NoLlm
    /\ api_calls = NoApiCalls
    /\ outbound = << >>
    /\ cookies = NoCookies
    /\ inflight = [s \in Procs |-> Idle]

\* The user signs up and logs in; then can_run_module("Module 1") and
\* record_module_run("Module 1") are called in turn, the clock running freely.
ScenarioNext ==
    \/ \E uid \in Users, e \in Emails : signup_user(uid, e) /\ UNCHANGED rest
    \/ \E uid \in Users : login_user(uid) /\ UNCHANGED rest
    \/ Tick /\ UNCHANGED rest
    \/ /\ HasData(db, user)
       /\ Len(gateLog) < MaxChecks
       /\ db[user].usage["Module 1"] = Len(gateLog)
       /\ can_run_module("Module 1")
       /\ gateLog' = Append(gateLog, ret'.ok)
       /\ UNCHANGED <<applied, session_state, llm, side>>
    \/ /\ HasData(db, user)
       /\ db[user].usage["Module 1"] < Len(gateLog)
       /\ record_module_run("Module 1")
       /\ UNCHANGED rest

SpecScenarioA == ScenarioInit /\ [][ScenarioNext]_vars

\* ------------------------- scenario B: a free user with two runs buys ultimate
\* The records of two sign-ups; either user logs in and runs modules; when the
\* user the session cs_ult names is on free with two runs of "Module 3", the
\* session is reconciled, and the user then calls can_run_module and
\* get_left_runs for "Module 3".  The log keeps what each call returned.
ScenarioBNext ==
    \/ \E uid \in Users : gateLog = << >> /\ login_user(uid) /\ UNCHANGED rest
    \/ gateLog = << >> /\ logout_user /\ UNCHANGED rest
    \/ gateLog = << >> /\ Tick /\ UNCHANGED rest
    \/ \E m \in Modules :
          /\ gateLog = << >>
          /\ TotalRuns(db, DOMAIN db) < MaxScenarioRuns
          /\ record_module_run(m)
          /\ UNCHANGED rest
    \/ /\ gateLog = << >>
       /\ user = "u2"
       /\ db["u2"].subscription.package = "free"
       /\ db["u2"].usage["Module 3"] = 2
       /\ update_tier_by_checkout_session("cs_ult")
       /\ gateLog' = <<ret'>>
       /\ UNCHANGED <<applied, session_state, llm, side>>
    \/ /\ gateLog # << >> /\ Len(gateLog) <= MaxCalls
       /\ can_run_module("Module 3")
       /\ gateLog' = Append(gateLog, ret')
       /\ UNCHANGED <<applied, session_state, llm, side>>
    \/ /\ gateLog # << >> /\ Len(gateLog) <= MaxCalls
       /\ get_left_runs("Module 3")
       /\ gateLog' = Append(gateLog, ret')
       /\ UNCHANGED <<applied, session_state, llm, side>>

SpecScenarioB == Init /\ [][ScenarioBNext]_vars

\* ------------------------------------------------- completions and rate limit
\* Each action is one call of a completion function.  The primary provider
\* answers ("ok"), does not answer within the timeout ("timeout") or raises
\* ("error"); the secondary answers or raises; has_key is whether the
\* DEEP_SEEK_API secret is configured.  The date is the clock reading in days.
Outcomes == {"ok", "timeout", "error"}

\* The calls counted for the day t.
Counted(a, t) == IF a.api_calls_date = t THEN a.api_calls_count ELSE 0

\* check_rate_limit: whether it raises, and the counters it leaves.
RateChecked(a, t) ==
    LET today == [api_calls_date |-> t, api_calls_count |-> Counted(a, t)]
    IN IF today.api_calls_count >= RATE_LIMIT
       THEN [raised |-> TRUE, api |-> today]
       ELSE [raised |-> FALSE, api |-> [today EXCEPT !.api_calls_count = @ + 1]]

\* A call issued to a provider, with the calls counted for the day when it was issued.
Call(provider, counted) == [provider |-> provider, counted |-> counted]

\* deepseek_completion: the counters, the calls issued and the response.
Deepseek(a, t, secondary, has_key) ==
    IF ~has_key THEN [api |-> a, calls |-> << >>, response |-> "None"]
    ELSE LET c == RateChecked(a, t)
         IN IF c.raised THEN [api |-> c.api, calls |-> << >>, response |-> "None"]
            ELSE [api |-> c.api,
                  calls |-> <<Call("deepseek", c.api.api_calls_count - 1)>>,
                  response |-> IF secondary = "ok" THEN "deepseek" ELSE "None"]

ChatCompletion_FallbackOnError(a, t, primary, secondary, has_key) ==
    LET c == RateChecked(a, t)
        first == <<Call("openai", c.api.api_calls_count - 1)>>
        d == Deepseek(c.api, t, secondary, has_key)
    IN IF c.raised
       THEN [api |-> c.api, calls |-> << >>, response |-> "None", fallback |-> FALSE]
       ELSE IF primary = "ok"
       THEN [api |-> c.api, calls |-> first, response |-> "openai", fallback |-> FALSE]
       ELSE [api |-> d.api, calls |-> first \o d.calls, response |-> d.response,
             fallback |-> TRUE]

\* chat_completion: the rate check, the primary call, the fallback on a timeout.
ChatCompletion(a, t, primary, secondary, has_key) ==
    LET c == RateChecked(a, t)
        first == <<Call("openai", c.api.api_calls_count - 1)>>
        d == Deepseek(c.api, t, secondary, has_key)
    IN IF c.raised
       THEN [api |-> c.api, calls |-> << >>, response |-> "None", fallback |-> FALSE]
       ELSE CASE primary = "ok" ->
                   [api |-> c.api, calls |-> first, response |-> "openai",
                    fallback |-> FALSE]
              [] primary = "timeout" ->
                   [api |-> d.api, calls |-> first \o d.calls, response |-> d.response,
                    fallback |-> TRUE]
              [] OTHER ->
                   [api |-> c.api, calls |-> first, response |-> "None",
                    fallback |-> FALSE]

\* chat_completion_function_call: the primary call, then the rate check.
FunctionCall(a, t, primary) ==
    LET issued == <<Call("openai", Counted(a, t))>>
        c == RateChecked(a, t)
    IN IF primary = "ok"
       THEN [api |-> c.api, calls |-> issued,
             response |-> IF c.raised THEN "None" ELSE "openai", fallback |-> FALSE]
       ELSE [api |-> a, calls |-> issued, response |-> "None", fallback |-> FALSE]

\* What a completion leaves: the counters, the calls issued, and the return
\* value (ok: a response; s: the provider it came from; n: 1 when
\* deepseek_completion was entered).
Completed(op, primary, r) ==
    /\ api_calls' = r.api
    /\ outbound' = r.calls
    /\ ret' = Ret(op, primary, r.response # "None", IF r.fallback THEN 1 ELSE 0,
                  r.response, "")
    /\ UNCHANGED <<db, now, user, applied, gateLog, session_state, llm, cookies, inflight>>

chat_completion(primary, secondary, has_key) ==
    Completed("chat_completion", primary,
              ChatCompletion(api_calls, now, primary, secondary, has_key))

chat_completion_function_call(primary) ==
    Completed("chat_completion_function_call", primary,
              FunctionCall(api_calls, now, primary))

LlmNext ==
    \/ \E primary \in Outcomes, secondary \in {"ok", "error"}, has_key \in BOOLEAN :
          chat_completion(primary, secondary, has_key)
    \/ \E primary \in Outcomes : chat_completion_function_call(primary)
    \/ Tick /\ UNCHANGED rest

SpecLlm == Init /\ [][LlmNext]_vars

\* ------------------------------------------------------ concurrent sessions
\* Every browser session runs the script in a thread of its own, against the
\* one database.  record_module_run reads the counter and then writes it;
\* can_run_module reads the record and then, if the expiry it read has passed,
\* writes the subscription.  Each database request is one step; a session is
\* between two requests while its entry of inflight is not Idle.
RaceModules == {"Module 1"}
RaceSessions == {"cs_pro", "cs_ult"}
race_frame == <<now, user, applied, gateLog, session_state, llm, api_calls, outbound, cookies>>

\* record_module_run: user_ref.child(module_name).get() or 0.
rmr_read(s, uid, m) ==
    /\ inflight[s] = Idle
    /\ uid \in DOMAIN db
    /\ db[uid].usage[m] < MaxRaceRuns
    /\ inflight' = [inflight EXCEPT ![s] =
                       [pc |-> "rmr", uid |-> uid, m |-> m, val |-> db[uid].usage[m],
                        package |-> ""]]
    /\ ret' = NoRet
    /\ UNCHANGED <<db, race_frame>>

\* record_module_run: user_ref.update({module_name: current_usage + 1}).
rmr_write(s) ==
    /\ inflight[s].pc = "rmr"
    /\ db' = [db EXCEPT ![inflight[s].uid].usage[inflight[s].m] = inflight[s].val + 1]
    /\ inflight' = [inflight EXCEPT ![s] = Idle]
    /\ ret' = NoRet
    /\ UNCHANGED race_frame

\* can_run_module: get_user_data() and the comparison of the expiry with the
\* clock.  With no expiry to undo, the call returns here.
gate_read(s, uid, m) ==
    /\ inflight[s] = Idle
    /\ uid \in DOMAIN db
    /\ IF Expired(db[uid].subscription, now)
       THEN /\ inflight' = [inflight EXCEPT ![s] =
                               [pc |-> "gate", uid |-> uid, m |-> m,
                                val |-> IF GateResult(db, uid, now, m) THEN 1 ELSE 0,
                                package |-> db[uid].subscription.package]]
            /\ ret' = NoRet
       ELSE /\ inflight' = inflight
            /\ ret' = Ret("can_run_module", m, GateResult(db, uid, now, m), 0,
                          db[uid].subscription.package, "")
    /\ UNCHANGED <<db, race_frame>>

\* can_run_module: the update of the subscription child, and the decision on
\* the record as it was read.
gate_write(s) ==
    /\ inflight[s].pc = "gate"
    /\ db' = Downgraded(db, inflight[s].uid)
    /\ inflight' = [inflight EXCEPT ![s] = Idle]
    /\ ret' = Ret("can_run_module", inflight[s].m, inflight[s].val = 1, 0,
                  inflight[s].package, "")
    /\ UNCHANGED race_frame

RaceNext ==
    \/ \E s \in Procs, uid \in Users, m \in RaceModules : rmr_read(s, uid, m)
    \/ \E s \in Procs : rmr_write(s)
    \/ \E s \in Procs, uid \in Users, m \in RaceModules : gate_read(s, uid, m)
    \/ \E s \in Procs : gate_write(s)
    \/ \E sid \in RaceSessions : update_tier_by_checkout_session(sid) /\ UNCHANGED rest
    \/ Tick /\ UNCHANGED rest

SpecConcurrent == Init /\ [][RaceNext]_vars

\* Sessions that only record runs: no upgrade comes between two calls.
RecordRaceNext ==
    \/ \E s \in Procs, uid \in Users, m \in RaceModules : rmr_read(s, uid, m)
    \/ \E s \in Procs : rmr_write(s)
    \/ Tick /\ UNCHANGED rest

SpecRecordRace == Init /\ [][RecordRaceNext]_vars

\* --------------------------------------------------- records sharing an email
\* Sign-ups with any of the emails, so that two records can hold the same one,
\* then payments reconciled while either user, or nobody, is logged in.
SharedNext ==
    \/ \E uid \in Users, e \in Emails : signup_user(uid, e) /\ UNCHANGED rest
    \/ \E uid \in Users : login_user(uid) /\ UNCHANGED rest
    \/ logout_user /\ UNCHANGED rest
    \/ Tick /\ UNCHANGED rest
    \/ TotalRuns(db, DOMAIN db) < MaxRuns /\ record_module_run("Module 1") /\ UNCHANGED rest
    \/ \E sid \in Sessions : update_tier_by_checkout_session(sid) /\ UNCHANGED rest

SpecShared == ScenarioInit /\ [][SharedNext]_vars

\* ------------------------------------------------------------ login cookie
\* A cookie value json.loads cannot parse.
Garbled == "{"

Fresh_Inclusive(login_time, t) == t - login_time <= COOKIE_DAYS

\* datetime.now().timestamp() - login_time < 24*3600.
Fresh(login_time, t) == t - login_time < COOKIE_DAYS

\* The cookie block at the top of the script, for a session without a user:
\* float() raises on the empty string, json.loads on a garbled value.
CookieRestore(c, t) ==
    IF c.user = "" THEN [user |-> NoUser, cookies |-> c]
    ELSE IF Len(c.login_time) = 1 /\ Fresh(c.login_time[1], t) /\ c.user # Garbled
    THEN [user |-> c.user, cookies |-> c]
    ELSE [user |-> NoUser, cookies |-> NoCookies]

cookie_frame == <<applied, gateLog, llm, api_calls, outbound, inflight>>

\* A script run of a session that has no user.
page_load ==
    /\ user = NoUser
    /\ user' = CookieRestore(cookies, now).user
    /\ cookies' = CookieRestore(cookies, now).cookies
    /\ ret' = Ret("page_load", cookies.user, CookieRestore(cookies, now).user # NoUser,
                  0, "", "")
    /\ UNCHANGED <<db, now, session_state, cookie_frame>>

\* "Log In" on the login page, which is rendered when the cookie block
\* restored nobody.
log_in(uid) ==
    /\ CookieRestore(cookies, now).user = NoUser
    /\ login_user(uid)
    /\ cookies' = [user |-> uid, login_time |-> <<now>>]
    /\ UNCHANGED <<session_state, cookie_frame>>

\* "Logout" in the sidebar: st.session_state.clear() and the empty cookie.
log_out ==
    /\ logout_user
    /\ session_state' = FreshSession
    /\ cookies' = NoCookies
    /\ UNCHANGED cookie_frame

\* The browser session ends (tab closed, page reloaded): the next script run
\* starts from an empty session state; the cookie stays in the browser.
session_end ==
    /\ user # NoUser
    /\ user' = NoUser
    /\ session_state' = FreshSession
    /\ ret' = NoRet
    /\ UNCHANGED <<db, now, cookies, cookie_frame>>

\* The browser returns a cookie the application did not write.
cookie_damaged(part) ==
    /\ cookies.user # ""
    /\ cookies' = IF part = "user" THEN [cookies EXCEPT !.user = Garbled]
                  ELSE [cookies EXCEPT !.login_time = << >>]
    /\ cookies' # cookies
    /\ ret' = NoRet
    /\ UNCHANGED <<db, now, user, session_state, cookie_frame>>

CookieNext ==
    \/ page_load
    \/ \E uid \in Users : log_in(uid)
    \/ log_out
    \/ session_end
    \/ user # NoUser /\ get_started
    \/ \E part \in {"user", "login_time"} : cookie_damaged(part)
    \/ Tick /\ UNCHANGED rest

SpecCookie == Init /\ [][CookieNext]_vars

\* ================================================================== claims

\* C1: for every package and usage count the gate returns exactly: free ->
\* allowed iff usage[module] < 5; pro -> allowed iff usage[module] < 100;
\* ultimate -> always allowed.  The package is the one the record holds once
\* the gate has returned (an expired subscription is gated as free).
C1_GateTable ==
    (ret.op = "can_run_module" /\ HasData(db, user)) =>
        LET package == db[user].subscription.package
            used == db[user].usage[ret.arg]
        IN /\ package = "free" => (ret.ok <=> used < 5)
           /\ package = "pro" => (ret.ok <=> used < 100)
           /\ package = "ultimate" => ret.ok

\* C1 witness: the gate has denied a pro record at exactly 100 runs.
C1_Witness ==
    /\ ret.op = "can_run_module" /\ HasData(db, user)
    /\ db[user].subscription.package = "pro"
    /\ db[user].usage[ret.arg] = 100
    /\ ~ret.ok

C8_UpgradeSets ==
    [][/\ \A plan \in Packages :
            update_tier_after_payment(plan) =>
               /\ db'[user].subscription = [package |-> plan, expiry |-> now + 180]
               /\ db'[user].usage = [m \in Modules |-> 0]
       /\ \A sid \in Sessions :
            (update_tier_by_checkout_session(sid) /\ ret'.ok) =>
               \E u \in DOMAIN db :
                  /\ lower(db[u].email) = lower(ret'.email)
                  /\ db'[u].subscription = [package |-> ret'.s, expiry |-> now + 180]
                  /\ db'[u].usage = [m \in Modules |-> 0]]_vars

\* C8 witness: a checkout upgrade was applied on day 180 to the ultimate plan.
C8_Witness ==
    /\ ret.op = "update_tier_by_checkout_session" /\ ret.ok /\ ret.s = "ultimate"
    /\ now = 180
    /\ db["u2"].subscription = [package |-> "ultimate", expiry |-> 360]
    /\ db["u2"].usage = [m \in Modules |-> 0]

\* C9: idempotence at a fixed clock.  The same upgrade applied again right
\* after it was applied, with the same arguments and the same now, leaves the
\* record as the first application left it.
C9_IdempotentAtFixedClock ==
    [][/\ \A sid \in Sessions :
            (/\ ret.op = "update_tier_by_checkout_session" /\ ret.arg = sid /\ ret.ok
             /\ update_tier_by_checkout_session(sid))
            => db' = db
       /\ \A plan \in Packages :
            (/\ ret.op = "update_tier_after_payment" /\ ret.arg = plan
             /\ update_tier_after_payment(plan))
            => db' = db]_vars

\* C9 witness: the state an applied checkout upgrade leaves, from which the
\* same session is reconciled again.
C9_Witness ==
    /\ ret.op = "update_tier_by_checkout_session" /\ ret.arg = "cs_pro" /\ ret.ok
    /\ db["u1"].subscription = [package |-> "pro", expiry |-> now + 180]
    /\ ENABLED update_tier_by_checkout_session("cs_pro")

\* C10: scenario A.  For a newly signed-up user, gate check and
\* record_module_run for "Module 1" called in turn give gate results true for
\* the first five checks and false for the sixth (and any later one).
C10_ScenarioA ==
    \A i \in 1..Len(gateLog) : gateLog[i] <=> i <= 5

\* C10 witness: the sixth check was made, after five allowed checks each
\* followed by a recorded run.
C10_Witness ==
    /\ Len(gateLog) = 6
    /\ HasData(db, user)
    /\ db[user].usage["Module 1"] = 5
    /\ ret.op = "can_run_module"

\* C2: a module's LLM call is made only when the gate check for the user and
\* the module returns allowed; at the free limit the call is not made.
C2_GateBeforeAct ==
    llm.called => llm.allowed

\* C3: a script run that makes no LLM call (a re-render of a page that shows an
\* earlier result, a navigation) leaves every usage counter as it was, and a
\* run whose call gave a usable result adds exactly 1 to that module's counter.
C3_OncePerSuccess ==
    [][/\ ~llm'.called => db' = db
       /\ (llm'.called /\ llm'.outcome = "ok")
             => db' = RecordedRun(db, user, llm'.module)]_vars

\* C4: a script run whose LLM call failed changes no field of the ledger
\* record, on every module page and on "Regenerate Interview Questions".
C4_FailedChangesNothing ==
    [][(llm'.called /\ llm'.outcome = "failed") => db' = db]_vars

\* C5: reconciling an already-applied paid session again, at any later time
\* and after runs were recorded, leaves the ledger as the single application
\* left it: no expiry extended, no usage counter changed.  (Stated for a
\* session that is the only one applied so far.)
C5_ReplayChangesNothing ==
    [][\A sid \in Sessions :
          (applied = {sid} /\ payment_status_success(sid)) => db' = db]_vars

\* C11: scenario B.  For a free user with usage["Module 3"] = 2 whose paid
\* session carries the plan ultimate, the reconciliation returns
\* (True, "ultimate", email); afterwards the gate for "Module 3" returns True,
\* get_left_runs for "Module 3" returns "Unlimited", and usage["Module 3"] is 0.
C11_ScenarioB ==
    /\ gateLog # << >> =>
          /\ gateLog[1] = Ret("update_tier_by_checkout_session", "cs_ult", TRUE, 0,
                              "ultimate", "b@x.io")
          /\ db["u2"].usage["Module 3"] = 0
    /\ \A i \in 2..Len(gateLog) :
          /\ gateLog[i].op = "can_run_module" => gateLog[i].ok
          /\ gateLog[i].op = "get_left_runs" => gateLog[i].s = "Unlimited"

\* C11 witness: after the payment both the gate and get_left_runs were called.
C11_Witness ==
    /\ Len(gateLog) >= 3
    /\ \E i \in 2..Len(gateLog) : gateLog[i].op = "can_run_module"
    /\ \E i \in 2..Len(gateLog) : gateLog[i].op = "get_left_runs"
    /\ db["u2"].subscription.package = "ultimate"

\* C12: scenario D.  Reconciling a session the provider reports as not paid
\* returns (False, None, payer email) and writes nothing: every record reads
\* after the call as it did before.
C12_UnpaidWritesNothing ==
    [][\A sid \in Sessions :
          (/\ StripeSession(sid).found
           /\ StripeSession(sid).payment_status # "paid"
           /\ update_tier_by_checkout_session(sid))
          => /\ db' = db
             /\ ~ret'.ok
             /\ ret'.s = "None"
             /\ ret'.email = StripeSession(sid).customer_email]_vars

\* C12 witness: the unpaid session of a payer who has a record was reconciled,
\* and the payer's record is still on free.
C12_Witness ==
    /\ ret = Ret("update_tier_by_checkout_session", "cs_unpaid", FALSE, 0, "None", "a@x.io")
    /\ db["u1"].email = "a@x.io"
    /\ db["u1"].subscription = subscription_init

\* C13: on a completed payment the reconciliation upgrades a record whose
\* email equals the payer email ignoring letter case; if no record's email
\* matches it returns failure with the payer email and changes no record.
C13_MatchIgnoringCase ==
    [][\A sid \in Sessions :
          (/\ StripeSession(sid).found
           /\ StripeSession(sid).payment_status = "paid"
           /\ update_tier_by_checkout_session(sid))
          => LET email == StripeSession(sid).customer_email
                 same == {u \in DOMAIN db : lower(db[u].email) = lower(email)}
             IN IF same # {}
                THEN /\ ret'.ok
                     /\ \E u \in same :
                           /\ db'[u].subscription.expiry = now + 180
                           /\ \A v \in DOMAIN db \ {u} : db'[v] = db[v]
                ELSE /\ ~ret'.ok
                     /\ ret'.email = email
                     /\ db' = db]_vars

\* C13 witness: the payer typed A@x.io, the record holds a@x.io, and the record
\* was upgraded.
C13_Witness ==
    /\ ret.op = "update_tier_by_checkout_session" /\ ret.ok /\ ret.email = "A@x.io"
    /\ db["u1"].email = "a@x.io"
    /\ db["u1"].subscription.package = "pro"

\* C14: the gate fails with NotFound when the user has no ledger record: a
\* decision is returned only for a user whose record is stored.
C14_NotFound ==
    ret.op = "can_run_module" => HasData(db, user)

\* C15: get_left_runs is derived the same way as the gate.  Whenever it is
\* called, also on a record whose paid subscription has expired, the gate
\* allows the module iff the value returned is "Unlimited" or greater than 0,
\* and on free / pro it is max(limit - used, 0) with the limit 5 / 100 of the
\* package the gate decides for.
C15_LeftRunsAsGate ==
    [][\A m \in Modules :
          get_left_runs(m) =>
             LET package == GatePackage(DataSubscription(db, user), now)
                 used == DataUsage(db, user, m)
             IN /\ GateResult(db, user, now, m) <=> (ret'.s = "Unlimited" \/ ret'.n > 0)
                /\ package = "free" => ret'.n = Max(5 - used, 0)
                /\ package = "pro" => ret'.n = Max(100 - used, 0)]_vars

\* C16: every stored record with package free has no expiry: after sign-up,
\* after lazy expiry, and after reconciling any paid session, whatever plan
\* tag its metadata carries or lacks.
C16_FreeHasNoExpiry ==
    \A u \in DOMAIN db :
        db[u].subscription.package = "free" => db[u].subscription.expiry = NoExpiry

\* C17: an upgrade is all or nothing.  Package, expiry and usage change in one
\* write: no step leaves a record with a newly written subscription and usage
\* that is not reset, or with usage reset under a subscription that is not the
\* one an upgrade writes; and a reconciliation that failed leaves every record
\* as it was.
C17_UpgradeAllOrNothing ==
    [][/\ \A u \in DOMAIN db :
             /\ (/\ db'[u].subscription # db[u].subscription
                 /\ db'[u].subscription # [package |-> "free", expiry |-> NoExpiry])
                => db'[u].usage = [m \in Modules |-> 0]
             /\ (\E m \in Modules : db'[u].usage[m] < db[u].usage[m])
                => /\ db'[u].usage = [m \in Modules |-> 0]
                   /\ db'[u].subscription.expiry = now + 180
       /\ (ret'.op = "update_tier_by_checkout_session" /\ ~ret'.ok) => db' = db]_vars

\* C17 witness: the write for the paid session of b@x.io failed; that record is
\* still on free with its recorded run, next to a record upgraded earlier.
C17_Witness ==
    /\ ret = Ret("update_tier_by_checkout_session", "cs_ult", FALSE, 0, "None", "None")
    /\ db["u2"].subscription = subscription_init
    /\ \E m \in Modules : db["u2"].usage[m] = 1
    /\ db["u1"].subscription.package = "pro"
    /\ db["u1"].usage = reset_usage

C19_GateFrame ==
    [][\A m \in Modules :
          can_run_module(m) =>
             /\ DOMAIN db' = DOMAIN db
             /\ \A u \in DOMAIN db :
                   /\ db'[u].usage = db[u].usage
                   /\ db'[u].email = db[u].email
                   /\ db'[u].created_at = db[u].created_at
                   /\ db'[u].subscription # db[u].subscription
                      => /\ u = user
                         /\ db[u].subscription.expiry # NoExpiry
                         /\ now > db[u].subscription.expiry
                         /\ db'[u].subscription = [package |-> "free", expiry |-> NoExpiry]]_vars

\* C19 witness: the gate was evaluated on the very day a pro subscription
\* expires and left the record as it was.
C19_Witness ==
    /\ ret.op = "can_run_module" /\ ret.s = "pro"
    /\ HasData(db, user)
    /\ now = 180
    /\ db[user].subscription = [package |-> "pro", expiry |-> 180]
    /\ db[user].usage[ret.arg] = 100

C21_PaidHasLaterExpiry ==
    [][\A u \in DOMAIN db' :
          db'[u].subscription.package \in {"pro", "ultimate"}
          => /\ db'[u].subscription.expiry # NoExpiry
             /\ (\/ u \notin DOMAIN db
                 \/ db'[u].subscription # db[u].subscription
                 \/ ret'.op \in {"update_tier_by_checkout_session",
                                 "update_tier_after_payment"})
                => \/ db'[u].subscription.expiry >= now
                   \/ (u \in DOMAIN db /\ db'[u].subscription = db[u].subscription)]_vars

\* C21 witness: a record upgraded to pro on day 181, read after the upgrade.
C21_Witness ==
    /\ now = 181
    /\ ret.op = "get_left_runs"
    /\ HasData(db, user)
    /\ db[user].subscription = [package |-> "pro", expiry |-> 361]

\* C22: the rate limit allows at most 150 API calls per session and day: every
\* call issued to a provider (plain, fallback or function-calling completion)
\* is issued while fewer than 150 calls are counted for the day.
C22_NoCallBeyondLimit ==
    \A i \in 1..Len(outbound) : outbound[i].counted < 150

\* C28: chat_completion enters the fallback exactly when the primary call was
\* issued and timed out, and then returns the secondary's response or None; a
\* primary error gives None with no fallback; chat_completion_function_call
\* never calls the secondary and gives None on a timeout or an error.
C28_FallbackOnTimeoutOnly ==
    [][LET issued == outbound' # << >>
           secondaryCalled == \E i \in 1..Len(outbound') :
                                 outbound'[i].provider = "deepseek"
       IN /\ \A p \in Outcomes, sec \in {"ok", "error"}, k \in BOOLEAN :
                chat_completion(p, sec, k) =>
                   /\ (ret'.n = 1) <=> (issued /\ p = "timeout")
                   /\ (issued /\ p = "timeout") =>
                         /\ ret'.ok <=> (secondaryCalled /\ sec = "ok")
                         /\ ret'.ok => ret'.s = "deepseek"
                         /\ secondaryCalled => k
                   /\ p = "error" => (~ret'.ok /\ ~secondaryCalled)
                   /\ (issued /\ p = "ok") =>
                         (ret'.ok /\ ret'.s = "openai" /\ ~secondaryCalled)
          /\ \A p \in Outcomes :
                chat_completion_function_call(p) =>
                   /\ ~secondaryCalled
                   /\ ret'.n = 0
                   /\ p \in {"timeout", "error"} => ~ret'.ok]_vars

\* C28 witness: the primary timed out and the secondary's response was returned.
C28_Witness ==
    /\ ret.op = "chat_completion"
    /\ ret.arg = "timeout"
    /\ ret.ok
    /\ ret.s = "deepseek"
    /\ Len(outbound) = 2
    /\ outbound[2].provider = "deepseek"

\* C23: a successful sign-up stores exactly one record, under the new uid, with
\* the given email, package free, no expiry and six zero counters; every other
\* record stays as it was and nobody is logged in by it.
C23_SignupCreatesFreeRecord ==
    [][\A uid \in Users, e \in Emails :
          signup_user(uid, e) =>
             /\ uid \notin DOMAIN db
             /\ DOMAIN db' = DOMAIN db \cup {uid}
             /\ \A u \in DOMAIN db : db'[u] = db[u]
             /\ db'[uid].email = e
             /\ db'[uid].subscription = [package |-> "free", expiry |-> NoExpiry]
             /\ DOMAIN db'[uid].usage = Modules
             /\ \A m \in Modules : db'[uid].usage[m] = 0
             /\ user' = user
             /\ cookies' = cookies
             /\ session_state' = session_state]_vars

\* C23 witness: the first sign-up has stored its record and nobody is logged in.
C23_Witness ==
    /\ DOMAIN db = {"u2"}
    /\ db["u2"].email = "b@x.io"
    /\ db["u2"].subscription.package = "free"
    /\ user = NoUser
    /\ ret = NoRet

\* C24: in every reachable state a free record's counter of each module is at
\* most 5 and a pro record's at most 100: no sequence of page actions records
\* more runs than the tier allows.
C24_UsageWithinTier ==
    \A u \in DOMAIN db : \A m \in Modules :
       /\ db[u].subscription.package = "free" => db[u].usage[m] <= 5
       /\ db[u].subscription.package = "pro" => db[u].usage[m] <= 100

\* C25: no update of a counter is lost when sessions run at the same time and
\* no upgrade intervenes: every record_module_run that completes leaves the
\* counter exactly 1 higher than it was before that call's write, so k
\* completed calls leave it k higher.
C25_NoLostUpdate ==
    [][\A s \in Procs :
          rmr_write(s) =>
             db'[inflight[s].uid].usage[inflight[s].m]
                = db[inflight[s].uid].usage[inflight[s].m] + 1]_vars

\* C26: a paid upgrade that was applied is not undone before its expiry has
\* passed, however the gate's read and lazy-expiry write interleave with the
\* payment reconciliation.
C26_UpgradeNotUndone ==
    [][\A u \in DOMAIN db :
          (/\ db[u].subscription.package \in {"pro", "ultimate"}
           /\ now <= db[u].subscription.expiry)
          => db'[u].subscription.package \in {"pro", "ultimate"}]_vars

\* C27: one call of update_tier_by_checkout_session changes at most one record,
\* a record whose email is the payer's ignoring case, and creates or removes
\* none; this holds whoever is logged in and when several records hold the email.
C27_OneRecordPerPayment ==
    [][\A sid \in Sessions :
          update_tier_by_checkout_session(sid) =>
             /\ DOMAIN db' = DOMAIN db
             /\ Cardinality({u \in DOMAIN db : db'[u] # db[u]}) <= 1
             /\ \A u \in DOMAIN db :
                   db'[u] # db[u]
                   => lower(db[u].email) = lower(StripeSession(sid).customer_email)]_vars

\* C27 witness: both records hold the payer's email, u2 is logged in, and the
\* payment upgraded u1 alone.
C27_Witness ==
    /\ DOMAIN db = Users
    /\ db["u1"].email = "a@x.io"
    /\ db["u2"].email = "a@x.io"
    /\ user = "u2"
    /\ ret.op = "update_tier_by_checkout_session"
    /\ ret.arg = "cs_pro"
    /\ ret.ok
    /\ db["u1"].subscription.package = "pro"
    /\ db["u2"].subscription.package = "free"

\* C29: a page load of a session without a user restores the user from the
\* login cookie only if the cookie's login_time is less than 24 hours (1 day)
\* before now; an older or unreadable cookie is cleared and nobody is logged
\* in; logout empties the cookie, and an empty cookie restores nobody.
C29_CookieRestore ==
    [][/\ page_load =>
            /\ user' # NoUser =>
                  /\ cookies.user # ""
                  /\ user' = cookies.user
                  /\ Len(cookies.login_time) = 1
                  /\ now - cookies.login_time[1] < 1
            /\ (cookies.user # "" /\ Len(cookies.login_time) = 1
                /\ now - cookies.login_time[1] >= 1) =>
                  (user' = NoUser /\ cookies' = NoCookies)
            /\ (cookies.user # "" /\ (Len(cookies.login_time) # 1 \/ cookies.user = Garbled)) =>
                  (user' = NoUser /\ cookies' = NoCookies)
       /\ log_out => (user' = NoUser /\ cookies' = NoCookies)]_vars

\* C29 witness: a page load on day 181 found the cookie of a login on day 180
\* and cleared it.
C29_Witness ==
    /\ now = 181
    /\ ret.op = "page_load"
    /\ ret.arg = "u1"
    /\ ~ret.ok
    /\ user = NoUser
    /\ cookies = NoCookies

\* C30: the stored CV text never has more than 5000 words and the stored job
\* description never more than 2000: an upload, a scrape or a paste of a longer
\* text is rejected and leaves the stored text as it was.
C30_TextsWithinLimits ==
    [][/\ session_state'.cv_text <= 5000
       /\ session_state'.jd_text <= 2000
       /\ cv_upload(CV_WORD_LIMIT + 1) => session_state'.cv_text = session_state.cv_text
       /\ use_manual_jd(JD_WORD_LIMIT + 1) => session_state'.jd_text = session_state.jd_text
       /\ scrape_jd(JD_WORD_LIMIT + 1) => session_state'.jd_text = session_state.jd_text]_vars

\* C30 witness: a CV of exactly 5000 words and a job description of exactly
\* 2000 words are stored.
C30_Witness ==
    /\ session_state.cv_text = 5000
    /\ session_state.jd_text = 2000

====
